---- MODULE Spec2Model ----
(***************************************************************************)
(* Model of the SI4735 "all in one" receiver sketch                        *)
(* (SI4735_03_STM32_ALL_IN_ONE_OLED.ino): the band/mode state machine      *)
(* driven by the buttons and the rotary encoder, the commands it sends to  *)
(* the tuner, and the differential display renderer.                       *)
(*                                                                         *)
(* One action is one pass of loop(): the encoder branch, the button        *)
(* branch for the first button line found LOW (or none), and the           *)
(* frequency display gate.  The encoder interrupt handler is an action of  *)
(* its own.  The RSSI poll at the end of loop() touches only rssi, snr     *)
(* and elapsedRSSI and is left out.                                        *)
(*                                                                         *)
(* The functions of the sketch are operators on a record s holding the     *)
(* sketch's globals, the display adapter's state and the tuner's state;    *)
(* the variables are committed from that record at the end of a pass.      *)
(***************************************************************************)
EXTENDS Integers, Sequences, FiniteSets, TLC

(***************************************************************************)
(* Program constants                                                       *)
(***************************************************************************)
FM_BAND_TYPE == 0
MW_BAND_TYPE == 1
SW_BAND_TYPE == 2
LW_BAND_TYPE == 3

MIN_ELAPSED_TIME == 100
DEFAULT_VOLUME == 45

FM == 0
LSB == 1
USB == 2
AM == 3

SSD1306_BLACK == 0
SSD1306_WHITE == 1

bandModeDesc == << <<"F", "M", " ">>, <<"L", "S", "B">>, <<"U", "S", "B">>, <<"A", "M", " ">> >>

mkBand(t, lo, hi, cur, st) ==
    [bandType |-> t, minimumFreq |-> lo, maximumFreq |-> hi, currentFreq |-> cur, currentStep |-> st]

bandTable ==
    << mkBand(FM_BAND_TYPE, 8400, 10800, 10570, 10),
       mkBand(LW_BAND_TYPE, 100, 510, 300, 1),
       mkBand(MW_BAND_TYPE, 520, 1720, 810, 10),
       mkBand(SW_BAND_TYPE, 1800, 3500, 1900, 1),
       mkBand(SW_BAND_TYPE, 3500, 4500, 3700, 1),
       mkBand(SW_BAND_TYPE, 4500, 5500, 4850, 5),
       mkBand(SW_BAND_TYPE, 5600, 6300, 6000, 5),
       mkBand(SW_BAND_TYPE, 6800, 7800, 7200, 5),
       mkBand(SW_BAND_TYPE, 9200, 10000, 9600, 5),
       mkBand(SW_BAND_TYPE, 10000, 11000, 10100, 1),
       mkBand(SW_BAND_TYPE, 11200, 12500, 11940, 5),
       mkBand(SW_BAND_TYPE, 13400, 13900, 13600, 5),
       mkBand(SW_BAND_TYPE, 14000, 14500, 14200, 1),
       mkBand(SW_BAND_TYPE, 15000, 15900, 15300, 5),
       mkBand(SW_BAND_TYPE, 17200, 17900, 17600, 5),
       mkBand(SW_BAND_TYPE, 18000, 18300, 18100, 1),
       mkBand(SW_BAND_TYPE, 21000, 21900, 21200, 1),
       mkBand(SW_BAND_TYPE, 24890, 26200, 24940, 1),
       mkBand(SW_BAND_TYPE, 26200, 27900, 27500, 1),
       mkBand(SW_BAND_TYPE, 28000, 30000, 28400, 1) >>

lastBand == Len(bandTable) - 1

(***************************************************************************)
(* Bounds of the model                                                     *)
(***************************************************************************)
\* events (passes of loop() and encoder interrupts) explored, counted from 0
MaxIter == 4

\* longest text handed to printValue on its own
MaxLen == 3

\* showFrequency on its own is applied to every frequency up to FreqSpan and to
\* the values of FreqExtra above it
FreqSpan == 1100

(***************************************************************************)
(* State                                                                   *)
(***************************************************************************)
VARIABLES
    currentMode, bfoOn, disableAgc, ssbLoaded, fmStereo,
    currentBFO, encoderCount,
    currentFrequency, previousFrequency, currentStep, currentBFOStep,
    bwIdxSSB, bwIdxAM,
    band, bandIdx, volume,
    oldFreq, oldMode, oldUnit,     \* display field caches
    oled,                          \* display adapter: text colour, cursor, glyph writes of the last pass
    tuner,                         \* the tuner chip as seen through its command interface
    cmds,                          \* tuner commands and delays issued by the last pass
    event,                         \* the last event: the branch a pass of loop() took, or the interrupt
    iter,                          \* events counted so far: passes of loop() and encoder interrupts
    netBand,                       \* band-up presses minus band-down presses so far
    leftAt,                        \* per band: <<frequency, step>> in use when it was last left by band up/down
    probe,                         \* arguments of the last direct call of the renderer (renderer specifications)
    pc,                            \* where the foreground is: "loop" between passes, or the statement
                                   \* it is about to run in the specifications that follow one function
                                   \* statement by statement
    unserved                       \* encoderCount holds a value the interrupt handler wrote and no tuning
                                   \* or BFO step has acted on yet

vars == << currentMode, bfoOn, disableAgc, ssbLoaded, fmStereo, currentBFO, encoderCount,
           currentFrequency, previousFrequency, currentStep, currentBFOStep, bwIdxSSB, bwIdxAM,
           band, bandIdx, volume, oldFreq, oldMode, oldUnit, oled, tuner, cmds,
           event, iter, netBand, leftAt, probe, pc, unserved >>

\* The sketch's state as one record
St ==
    [currentMode |-> currentMode, bfoOn |-> bfoOn, disableAgc |-> disableAgc,
     ssbLoaded |-> ssbLoaded, fmStereo |-> fmStereo, currentBFO |-> currentBFO,
     encoderCount |-> encoderCount, currentFrequency |-> currentFrequency,
     previousFrequency |-> previousFrequency, currentStep |-> currentStep,
     currentBFOStep |-> currentBFOStep, bwIdxSSB |-> bwIdxSSB, bwIdxAM |-> bwIdxAM,
     band |-> band, bandIdx |-> bandIdx, volume |-> volume,
     oldFreq |-> oldFreq, oldMode |-> oldMode, oldUnit |-> oldUnit,
     oled |-> oled, tuner |-> tuner, cmds |-> cmds]

\* The record s as the values of the variables
Holds(s) ==
    /\ currentMode = s.currentMode
    /\ bfoOn = s.bfoOn
    /\ disableAgc = s.disableAgc
    /\ ssbLoaded = s.ssbLoaded
    /\ fmStereo = s.fmStereo
    /\ currentBFO = s.currentBFO
    /\ encoderCount = s.encoderCount
    /\ currentFrequency = s.currentFrequency
    /\ previousFrequency = s.previousFrequency
    /\ currentStep = s.currentStep
    /\ currentBFOStep = s.currentBFOStep
    /\ bwIdxSSB = s.bwIdxSSB
    /\ bwIdxAM = s.bwIdxAM
    /\ band = s.band
    /\ bandIdx = s.bandIdx
    /\ volume = s.volume
    /\ oldFreq = s.oldFreq
    /\ oldMode = s.oldMode
    /\ oldUnit = s.oldUnit
    /\ oled = s.oled
    /\ tuner = s.tuner
    /\ cmds = s.cmds

\* The record s as the values of the variables after the step
Commit(s) ==
    /\ currentMode' = s.currentMode
    /\ bfoOn' = s.bfoOn
    /\ disableAgc' = s.disableAgc
    /\ ssbLoaded' = s.ssbLoaded
    /\ fmStereo' = s.fmStereo
    /\ currentBFO' = s.currentBFO
    /\ encoderCount' = s.encoderCount
    /\ currentFrequency' = s.currentFrequency
    /\ previousFrequency' = s.previousFrequency
    /\ currentStep' = s.currentStep
    /\ currentBFOStep' = s.currentBFOStep
    /\ bwIdxSSB' = s.bwIdxSSB
    /\ bwIdxAM' = s.bwIdxAM
    /\ band' = s.band
    /\ bandIdx' = s.bandIdx
    /\ volume' = s.volume
    /\ oldFreq' = s.oldFreq
    /\ oldMode' = s.oldMode
    /\ oldUnit' = s.oldUnit
    /\ oled' = s.oled
    /\ tuner' = s.tuner
    /\ cmds' = s.cmds

(***************************************************************************)
(* Tuner command adapter (SI4735 library, an external collaborator): the   *)
(* chip keeps the band it was last configured with, its working frequency  *)
(* and step, its volume, whether it holds the SSB patch and how many patch *)
(* downloads it has received, and the arguments of the last set-AGC        *)
(* command (disable, index), empty before the first.                       *)
(***************************************************************************)
MaxVolume == 63

\* what a frequency readback can be after a tuning request: the stepped value
\* (wrapping inside the band) or either edge of the configured band
Readings == {"step", "min", "max"}

tunerInit ==
    [minFreq |-> 0, maxFreq |-> 0, freq |-> 0, step |-> 0, patch |-> FALSE, downloads |-> 0, vol |-> 0,
     agc |-> <<>>]

tunerMove(t, dir, r) ==
    CASE r = "stale" -> t.freq
      [] r = "min" -> t.minFreq
      [] r = "max" -> t.maxFreq
      [] OTHER ->
            IF dir = 1
            THEN (IF t.freq + t.step > t.maxFreq THEN t.minFreq ELSE t.freq + t.step)
            ELSE (IF t.freq - t.step < t.minFreq THEN t.maxFreq ELSE t.freq - t.step)

tunerAfter(t, op, args) ==
    CASE op \in {"setFM", "setAM"} ->
            [t EXCEPT !.minFreq = args[1], !.maxFreq = args[2], !.freq = args[3],
                      !.step = args[4], !.patch = FALSE]
      [] op = "setSSB" ->
            [t EXCEPT !.minFreq = args[1], !.maxFreq = args[2], !.freq = args[3], !.step = args[4]]
      [] op = "setFrequencyStep" -> [t EXCEPT !.step = args[1]]
      [] op = "reset" -> [t EXCEPT !.patch = FALSE]
      [] op = "downloadPatch" -> [t EXCEPT !.patch = TRUE, !.downloads = @ + 1]
      [] op = "setAutomaticGainControl" -> [t EXCEPT !.agc = args]
      [] op = "setVolume" -> [t EXCEPT !.vol = args[1]]
      [] op = "volumeUp" -> [t EXCEPT !.vol = IF @ < MaxVolume THEN @ + 1 ELSE @]
      [] op = "volumeDown" -> [t EXCEPT !.vol = IF @ > 0 THEN @ - 1 ELSE @]
      [] op = "frequencyUp" -> [t EXCEPT !.freq = tunerMove(t, 1, args[1])]
      [] op = "frequencyDown" -> [t EXCEPT !.freq = tunerMove(t, -1, args[1])]
      [] op = "seekStationUp" -> [t EXCEPT !.freq = tunerMove(t, 1, args[1])]
      [] OTHER -> t

\* si4735.<op>(args): the command is logged and the chip takes it
si4735(s, op, args) ==
    [s EXCEPT !.cmds = Append(@, [op |-> op, args |-> args]),
              !.tuner = tunerAfter(@, op, args)]

\* a tuning request whose outcome r is the chip's; the sketch passes no argument
si4735Tune(s, op, r) ==
    [s EXCEPT !.cmds = Append(@, [op |-> op, args |-> <<>>]),
              !.tuner = tunerAfter(@, op, <<r>>)]

delay(s, ms) == [s EXCEPT !.cmds = Append(@, [op |-> "delay", args |-> <<ms>>])]

(***************************************************************************)
(* Display adapter (Adafruit GFX / SSD1306, an external collaborator):     *)
(* a glyph is written at the cursor in the current text colour and the     *)
(* cursor moves on by one glyph cell.                                      *)
(***************************************************************************)
GlyphAdvance == 6

oledInit == [textColor |-> SSD1306_WHITE, cursorX |-> 0, cursorY |-> 0, writes |-> <<>>]

oledSetCursor(d, x, y) == [d EXCEPT !.cursorX = x, !.cursorY = y]

oledSetTextColor(d, c) == [d EXCEPT !.textColor = c]

oledWrite(d, ch) ==
    [d EXCEPT !.writes = Append(@, [col |-> d.cursorX, line |-> d.cursorY, ch |-> ch,
                                    color |-> d.textColor]),
              !.cursorX = @ + GlyphAdvance]

\* a C string is a sequence of characters; the character at its end is NUL
NUL == "NUL"

charAt(str, i) == IF i <= Len(str) THEN str[i] ELSE NUL

(***************************************************************************)
(* printValue: the differential renderer                                   *)
(***************************************************************************)
\* while (*pOld && *pNew): redraw the positions that differ
RECURSIVE printChanged(_, _, _, _, _, _, _)
printChanged(d, oldValue, newValue, i, c, line, space) ==
    IF charAt(oldValue, i) # NUL /\ charAt(newValue, i) # NUL
    THEN LET d1 == IF oldValue[i] # newValue[i]
                   THEN oledWrite(oledSetCursor(oledSetTextColor(
                            oledWrite(oledSetCursor(oledSetTextColor(d, SSD1306_BLACK), c, line),
                                      oldValue[i]),
                            SSD1306_WHITE), c, line), newValue[i])
                   ELSE d
         IN printChanged(d1, oldValue, newValue, i + 1, c + space, line, space)
    ELSE [d |-> d, i |-> i, c |-> c]

\* while (*p): write the rest of the string p from position i on, in the current colour
RECURSIVE printRest(_, _, _, _, _, _)
printRest(d, p, i, c, line, space) ==
    IF charAt(p, i) # NUL
    THEN printRest(oledWrite(oledSetCursor(d, c, line), p[i]), p, i + 1, c + space, line, space)
    ELSE [d |-> d, c |-> c]

\* printValue without the loop that erases what is left of the old text
printValueNoErase(s, col, line, field, newValue, space) ==
    LET oldValue == s[field]
        d0 == oledWrite(oledWrite(oledSetCursor(s.oled, 38, 0), charAt(newValue, 1)),
                        charAt(oldValue, 1))
        a == printChanged(d0, oldValue, newValue, 1, col, line, space)
        e == printRest(oledSetTextColor(a.d, SSD1306_WHITE), newValue, a.i, a.c, line, space)
    IN [s EXCEPT !.oled = e.d, ![field] = newValue]

printValue(s, col, line, field, newValue, space) ==
    LET oldValue == s[field]
        d0 == oledWrite(oledWrite(oledSetCursor(s.oled, 38, 0), charAt(newValue, 1)),
                        charAt(oldValue, 1))
        a == printChanged(d0, oldValue, newValue, 1, col, line, space)
        b == printRest(oledSetTextColor(a.d, SSD1306_BLACK), oldValue, a.i, a.c, line, space)
        e == printRest(oledSetTextColor(b.d, SSD1306_WHITE), newValue, a.i, b.c, line, space)
    IN [s EXCEPT !.oled = e.d, ![field] = newValue]

(***************************************************************************)
(* showFrequency                                                           *)
(***************************************************************************)
digitChars == <<"0", "1", "2", "3", "4", "5", "6", "7", "8", "9">>

RECURSIVE utoa(_)
utoa(n) == IF n < 10 THEN <<digitChars[n + 1]>>
           ELSE Append(utoa(n \div 10), digitChars[(n % 10) + 1])

\* sprintf(tmp, "%5u", n): decimal, right-justified in at least five characters
RECURSIVE padLeft(_, _)
padLeft(str, width) == IF Len(str) >= width THEN str ELSE padLeft(<<" ">> \o str, width)

RECURSIVE padZero(_, _)
padZero(str, width) == IF Len(str) >= width THEN str ELSE padZero(<<"0">> \o str, width)

\* "%05u" in place of "%5u"
sprintf05u(n) == padZero(utoa(n), 5)

sprintf5u(n) == padLeft(utoa(n), 5)

showFrequency(s) ==
    LET tmp == sprintf5u(s.currentFrequency)
        isFM == s.band[s.bandIdx].bandType = FM_BAND_TYPE
        freq == IF isFM
                THEN <<charAt(tmp, 1), charAt(tmp, 2), charAt(tmp, 3), ".", charAt(tmp, 4), charAt(tmp, 5)>>
                ELSE <<charAt(tmp, 1), charAt(tmp, 2), charAt(tmp, 3), charAt(tmp, 4), charAt(tmp, 5)>>
        unit == IF isFM THEN <<"M", "H", "z">> ELSE <<"K", "H", "z">>
        displayBuffer == IF ~s.bfoOn THEN freq ELSE <<">">> \o freq \o <<"<">>
        s1 == printValue(s, 38, 0, "oldFreq", displayBuffer, 7)
        bandMode == IF s.currentFrequency < 520 THEN <<"L", "W", " ", " ">>
                    ELSE bandModeDesc[s.currentMode + 1]
        s2 == printValue(s1, 0, 0, "oldMode", bandMode, 7)
    IN printValue(s2, 0, 0, "oldUnit", unit, 7)

(***************************************************************************)
(* Band and mode state machine.  showStatus, showRSSI, showVolume and      *)
(* showBFO have empty bodies in the sketch and do not appear.              *)
(***************************************************************************)
bandArgs(s) ==
    << s.band[s.bandIdx].minimumFreq, s.band[s.bandIdx].maximumFreq,
       s.band[s.bandIdx].currentFreq, s.band[s.bandIdx].currentStep >>

\* useBand with one of its statements changed:
\*   "fmKeepsBfo"    the FM branch does not clear bfoOn
\*   "fmKeepsPatch"  the FM branch does not clear ssbLoaded
\*   "capZero"       the antenna capacitor is set to 0 on every band
\*   "noForceAM"     the branch for ssbLoaded false does not set currentMode
useBandVariant(s, v) ==
    LET s1 ==
          IF s.band[s.bandIdx].bandType = FM_BAND_TYPE
          THEN LET a == [s EXCEPT !.currentMode = FM]
                   b == si4735(a, "setTuneFrequencyAntennaCapacitor", <<0>>)
                   c == si4735(b, "setFM", bandArgs(b))
               IN [c EXCEPT !.bfoOn = IF v = "fmKeepsBfo" THEN @ ELSE FALSE,
                            !.ssbLoaded = IF v = "fmKeepsPatch" THEN @ ELSE FALSE]
          ELSE LET a == IF s.band[s.bandIdx].bandType = MW_BAND_TYPE
                           \/ s.band[s.bandIdx].bandType = LW_BAND_TYPE
                           \/ v = "capZero"
                        THEN si4735(s, "setTuneFrequencyAntennaCapacitor", <<0>>)
                        ELSE si4735(s, "setTuneFrequencyAntennaCapacitor", <<1>>)
               IN IF a.ssbLoaded
                  THEN LET b == si4735(a, "setSSB", bandArgs(a) \o <<a.currentMode>>)
                           c == si4735(b, "setSSBAutomaticVolumeControl", <<1>>)
                       IN si4735(c, "setSsbSoftMuteMaxAttenuation", <<0>>)
                  ELSE LET b == IF v = "noForceAM" THEN a ELSE [a EXCEPT !.currentMode = AM]
                           c == si4735(b, "setAM", bandArgs(b))
                           d == si4735(c, "setAutomaticGainControl", <<1, 0>>)
                           e == si4735(d, "setAmSoftMuteMaxAttenuation", <<0>>)
                       IN [e EXCEPT !.bfoOn = FALSE]
        s2 == delay(s1, 100)
    IN [s2 EXCEPT !.currentFrequency = s2.band[s2.bandIdx].currentFreq,
                  !.currentStep = s2.band[s2.bandIdx].currentStep]

useBandFmKeepsBfo(s) == useBandVariant(s, "fmKeepsBfo")

useBandFmKeepsPatch(s) == useBandVariant(s, "fmKeepsPatch")

useBandCapZero(s) == useBandVariant(s, "capZero")

useBandNoForceAM(s) == useBandVariant(s, "noForceAM")

\* useBand whose FM branch leaves currentMode as it was
useBandKeepMode(s) ==
    LET s1 ==
          IF s.band[s.bandIdx].bandType = FM_BAND_TYPE
          THEN LET b == si4735(s, "setTuneFrequencyAntennaCapacitor", <<0>>)
                   c == si4735(b, "setFM", bandArgs(b))
               IN [c EXCEPT !.bfoOn = FALSE, !.ssbLoaded = FALSE]
          ELSE LET a == IF s.band[s.bandIdx].bandType = MW_BAND_TYPE
                           \/ s.band[s.bandIdx].bandType = LW_BAND_TYPE
                        THEN si4735(s, "setTuneFrequencyAntennaCapacitor", <<0>>)
                        ELSE si4735(s, "setTuneFrequencyAntennaCapacitor", <<1>>)
               IN IF a.ssbLoaded
                  THEN LET b == si4735(a, "setSSB", bandArgs(a) \o <<a.currentMode>>)
                           c == si4735(b, "setSSBAutomaticVolumeControl", <<1>>)
                       IN si4735(c, "setSsbSoftMuteMaxAttenuation", <<0>>)
                  ELSE LET b == [a EXCEPT !.currentMode = AM]
                           c == si4735(b, "setAM", bandArgs(b))
                           d == si4735(c, "setAutomaticGainControl", <<1, 0>>)
                           e == si4735(d, "setAmSoftMuteMaxAttenuation", <<0>>)
                       IN [e EXCEPT !.bfoOn = FALSE]
        s2 == delay(s1, 100)
    IN [s2 EXCEPT !.currentFrequency = s2.band[s2.bandIdx].currentFreq,
                  !.currentStep = s2.band[s2.bandIdx].currentStep]

useBand(s) ==
    LET s1 ==
          IF s.band[s.bandIdx].bandType = FM_BAND_TYPE
          THEN LET a == [s EXCEPT !.currentMode = FM]
                   b == si4735(a, "setTuneFrequencyAntennaCapacitor", <<0>>)
                   c == si4735(b, "setFM", bandArgs(b))
               IN [c EXCEPT !.bfoOn = FALSE, !.ssbLoaded = FALSE]
          ELSE LET a == IF s.band[s.bandIdx].bandType = MW_BAND_TYPE
                           \/ s.band[s.bandIdx].bandType = LW_BAND_TYPE
                        THEN si4735(s, "setTuneFrequencyAntennaCapacitor", <<0>>)
                        ELSE si4735(s, "setTuneFrequencyAntennaCapacitor", <<1>>)
               IN IF a.ssbLoaded
                  THEN LET b == si4735(a, "setSSB", bandArgs(a) \o <<a.currentMode>>)
                           c == si4735(b, "setSSBAutomaticVolumeControl", <<1>>)
                       IN si4735(c, "setSsbSoftMuteMaxAttenuation", <<0>>)
                  ELSE LET b == [a EXCEPT !.currentMode = AM]
                           c == si4735(b, "setAM", bandArgs(b))
                           d == si4735(c, "setAutomaticGainControl", <<1, 0>>)
                           e == si4735(d, "setAmSoftMuteMaxAttenuation", <<0>>)
                       IN [e EXCEPT !.bfoOn = FALSE]
        s2 == delay(s1, 100)
    IN [s2 EXCEPT !.currentFrequency = s2.band[s2.bandIdx].currentFreq,
                  !.currentStep = s2.band[s2.bandIdx].currentStep]

\* saveBand that stores the step and forgets the frequency
saveBandStepOnly(s) ==
    [s EXCEPT !.band[s.bandIdx].currentStep = s.currentStep]

\* save the current frequency for the band
saveBand(s) ==
    [s EXCEPT !.band[s.bandIdx].currentFreq = s.currentFrequency,
              !.band[s.bandIdx].currentStep = s.currentStep]

\* bandUp that moves to the next band before it saves the frequency and step
bandUpSaveAfter(s) ==
    LET s1 == IF s.bandIdx < lastBand
              THEN [s EXCEPT !.bandIdx = @ + 1]
              ELSE [s EXCEPT !.bandIdx = 0]
        s2 == [s1 EXCEPT !.band[s1.bandIdx].currentFreq = s1.currentFrequency,
                         !.band[s1.bandIdx].currentStep = s1.currentStep]
    IN useBand(s2)

bandUp(s) ==
    LET s1 == saveBand(s)
        s2 == IF s1.bandIdx < lastBand
              THEN [s1 EXCEPT !.bandIdx = @ + 1]
              ELSE [s1 EXCEPT !.bandIdx = 0]
    IN useBand(s2)

\* bandDown that stays on band 0 instead of wrapping to the last band
bandDownNoWrap(s) ==
    LET s1 == [s EXCEPT !.band[s.bandIdx].currentFreq = s.currentFrequency,
                        !.band[s.bandIdx].currentStep = s.currentStep]
        s2 == IF s1.bandIdx > 0
              THEN [s1 EXCEPT !.bandIdx = @ - 1]
              ELSE s1
    IN useBand(s2)

bandDown(s) ==
    LET s1 == saveBand(s)
        s2 == IF s1.bandIdx > 0
              THEN [s1 EXCEPT !.bandIdx = @ - 1]
              ELSE [s1 EXCEPT !.bandIdx = lastBand]
    IN useBand(s2)

\* loadSSBStmt that applies the SSB configuration before it downloads the patch
loadSSBStmtConfigFirst(s, k) ==
    CASE k = 1 -> si4735(s, "reset", <<>>)
      [] k = 2 -> si4735(s, "queryLibraryId", <<>>)
      [] k = 3 -> si4735(s, "patchPowerUp", <<>>)
      [] k = 4 -> delay(s, 50)
      [] k = 5 -> si4735(s, "setSSBConfig", <<s.bwIdxSSB, 1, 0, 0, 0, 1>>)
      [] k = 6 -> si4735(s, "downloadPatch", <<>>)
      [] k = 7 -> delay(s, 25)
      [] k = 8 -> [s EXCEPT !.ssbLoaded = TRUE]

\* the k-th statement of loadSSB
loadSSBStmt(s, k) ==
    CASE k = 1 -> si4735(s, "reset", <<>>)
      [] k = 2 -> si4735(s, "queryLibraryId", <<>>)
      [] k = 3 -> si4735(s, "patchPowerUp", <<>>)
      [] k = 4 -> delay(s, 50)
      [] k = 5 -> si4735(s, "downloadPatch", <<>>)
      [] k = 6 -> si4735(s, "setSSBConfig", <<s.bwIdxSSB, 1, 0, 0, 0, 1>>)
      [] k = 7 -> delay(s, 25)
      [] k = 8 -> [s EXCEPT !.ssbLoaded = TRUE]

\* the statements of loadSSB
loadSSBStmts == 1..8

\* loadSSB up to and including its n-th statement
RECURSIVE loadSSBUpTo(_, _)
loadSSBUpTo(s, n) == IF n = 0 THEN s ELSE loadSSBStmt(loadSSBUpTo(s, n - 1), n)

loadSSB(s) == loadSSBUpTo(s, Cardinality(loadSSBStmts))

(***************************************************************************)
(* loop(): the encoder branch                                              *)
(***************************************************************************)
\* encoderStep whose BFO branch is not closed by an else: the tuning step
\* follows it
encoderStepNoElse(s, r) ==
    LET s1 == IF s.bfoOn
              THEN LET a == [s EXCEPT !.currentBFO =
                                 IF s.encoderCount = 1 THEN @ + s.currentBFOStep
                                 ELSE @ - s.currentBFOStep]
                   IN si4735(a, "setSSBBfo", <<a.currentBFO>>)
              ELSE s
        a == IF s1.encoderCount = 1
             THEN si4735Tune(s1, "frequencyUp", r)
             ELSE si4735Tune(s1, "frequencyDown", r)
        b == si4735(a, "getFrequency", <<>>)
    IN [b EXCEPT !.currentFrequency = b.tuner.freq]

\* the BFO or tuning step taken for the value of encoderCount
encoderStep(s, r) ==
    IF s.bfoOn
    THEN LET a == [s EXCEPT !.currentBFO =
                       IF s.encoderCount = 1 THEN @ + s.currentBFOStep
                       ELSE @ - s.currentBFOStep]
         IN si4735(a, "setSSBBfo", <<a.currentBFO>>)
    ELSE LET a == IF s.encoderCount = 1
                  THEN si4735Tune(s, "frequencyUp", r)
                  ELSE si4735Tune(s, "frequencyDown", r)
             b == si4735(a, "getFrequency", <<>>)
         IN [b EXCEPT !.currentFrequency = b.tuner.freq]

encoderBranch(s, r) ==
    IF s.encoderCount # 0
    THEN [encoderStep(s, r) EXCEPT !.encoderCount = 0]
    ELSE s

(***************************************************************************)
(* loop(): the button branches                                             *)
(***************************************************************************)
\* bandwidthButton whose SSB index wraps one step late, as the AM index does
bandwidthButtonWrapLate(s) ==
    LET s1 ==
          IF s.currentMode = LSB \/ s.currentMode = USB
          THEN LET a == [s EXCEPT !.bwIdxSSB = IF @ + 1 > 6 THEN 0 ELSE @ + 1]
                   b == si4735(a, "setSSBAudioBandwidth", <<a.bwIdxSSB>>)
               IN IF b.bwIdxSSB = 0 \/ b.bwIdxSSB = 4 \/ b.bwIdxSSB = 5
                  THEN si4735(b, "setSBBSidebandCutoffFilter", <<0>>)
                  ELSE si4735(b, "setSBBSidebandCutoffFilter", <<1>>)
          ELSE IF s.currentMode = AM
          THEN LET a == [s EXCEPT !.bwIdxAM = IF @ + 1 > 6 THEN 0 ELSE @ + 1]
               IN si4735(a, "setBandwidth", <<a.bwIdxAM, 1>>)
          ELSE s
    IN delay(s1, MIN_ELAPSED_TIME)

bandwidthButton(s) ==
    LET s1 ==
          IF s.currentMode = LSB \/ s.currentMode = USB
          THEN LET a == [s EXCEPT !.bwIdxSSB = IF @ + 1 > 5 THEN 0 ELSE @ + 1]
                   b == si4735(a, "setSSBAudioBandwidth", <<a.bwIdxSSB>>)
               IN IF b.bwIdxSSB = 0 \/ b.bwIdxSSB = 4 \/ b.bwIdxSSB = 5
                  THEN si4735(b, "setSBBSidebandCutoffFilter", <<0>>)
                  ELSE si4735(b, "setSBBSidebandCutoffFilter", <<1>>)
          ELSE IF s.currentMode = AM
          THEN LET a == [s EXCEPT !.bwIdxAM = IF @ + 1 > 6 THEN 0 ELSE @ + 1]
               IN si4735(a, "setBandwidth", <<a.bwIdxAM, 1>>)
          ELSE s
    IN delay(s1, MIN_ELAPSED_TIME)

volUp(s) ==
    LET a == si4735(si4735(s, "volumeUp", <<>>), "getVolume", <<>>)
    IN delay([a EXCEPT !.volume = a.tuner.vol], MIN_ELAPSED_TIME)

volDown(s) ==
    LET a == si4735(si4735(s, "volumeDown", <<>>), "getVolume", <<>>)
    IN delay([a EXCEPT !.volume = a.tuner.vol], MIN_ELAPSED_TIME)

\* bfoSwitch that toggles bfoOn in every mode but FM
bfoSwitchAnyMode(s, r) ==
    LET s1 ==
          IF s.currentMode # FM
          THEN [s EXCEPT !.bfoOn = ~@]
          ELSE LET a == delay(si4735Tune(s, "seekStationUp", r), 30)
                   b == si4735(a, "getFrequency", <<>>)
               IN [b EXCEPT !.currentFrequency = b.tuner.freq]
    IN delay(s1, MIN_ELAPSED_TIME)

bfoSwitch(s, r) ==
    LET s1 ==
          IF s.currentMode = LSB \/ s.currentMode = USB
          THEN [s EXCEPT !.bfoOn = ~@]
          ELSE IF s.currentMode = FM
          THEN LET a == delay(si4735Tune(s, "seekStationUp", r), 30)
                   b == si4735(a, "getFrequency", <<>>)
               IN [b EXCEPT !.currentFrequency = b.tuner.freq]
          ELSE s
    IN delay(s1, MIN_ELAPSED_TIME)

agcSwitch(s) ==
    LET a == [s EXCEPT !.disableAgc = ~@]
    IN si4735(a, "setAutomaticGainControl", <<IF a.disableAgc THEN 1 ELSE 0, 1>>)

\* stepSwitch that does not write the new step into the band table
stepSwitchNoStore(s) ==
    IF s.currentMode = FM
    THEN LET a == [s EXCEPT !.fmStereo = ~@]
         IN IF a.fmStereo THEN si4735(a, "setFmStereoOn", <<>>)
            ELSE si4735(a, "setFmStereoOff", <<>>)
    ELSE LET s1 ==
               IF s.bfoOn /\ (s.currentMode = LSB \/ s.currentMode = USB)
               THEN [s EXCEPT !.currentBFOStep = IF @ = 25 THEN 10 ELSE 25]
               ELSE LET a == [s EXCEPT !.currentStep =
                                  IF @ = 1 THEN 5 ELSE IF @ = 5 THEN 10 ELSE 1]
                    IN si4735(a, "setFrequencyStep", <<a.currentStep>>)
         IN delay(s1, MIN_ELAPSED_TIME)

stepSwitch(s) ==
    IF s.currentMode = FM
    THEN LET a == [s EXCEPT !.fmStereo = ~@]
         IN IF a.fmStereo THEN si4735(a, "setFmStereoOn", <<>>)
            ELSE si4735(a, "setFmStereoOff", <<>>)
    ELSE LET s1 ==
               IF s.bfoOn /\ (s.currentMode = LSB \/ s.currentMode = USB)
               THEN [s EXCEPT !.currentBFOStep = IF @ = 25 THEN 10 ELSE 25]
               ELSE LET a == [s EXCEPT !.currentStep =
                                  IF @ = 1 THEN 5 ELSE IF @ = 5 THEN 10 ELSE 1]
                        b == si4735(a, "setFrequencyStep", <<a.currentStep>>)
                    IN [b EXCEPT !.band[b.bandIdx].currentStep = b.currentStep]
         IN delay(s1, MIN_ELAPSED_TIME)

\* modeSwitch that calls useBand without writing the working frequency and
\* step into the band entry first
modeSwitchNoSave(s) ==
    IF s.currentMode # FM
    THEN LET s1 ==
               IF s.currentMode = AM
               THEN [loadSSB(s) EXCEPT !.currentMode = LSB]
               ELSE IF s.currentMode = LSB
               THEN [s EXCEPT !.currentMode = USB]
               ELSE IF s.currentMode = USB
               THEN [s EXCEPT !.currentMode = AM, !.ssbLoaded = FALSE, !.bfoOn = FALSE]
               ELSE s
         IN useBand(s1)
    ELSE s

\* modeSwitch that loads the patch again on the way from LSB to USB
modeSwitchReload(s) ==
    IF s.currentMode # FM
    THEN LET s1 ==
               IF s.currentMode = AM
               THEN [loadSSB(s) EXCEPT !.currentMode = LSB]
               ELSE IF s.currentMode = LSB
               THEN [loadSSB(s) EXCEPT !.currentMode = USB]
               ELSE IF s.currentMode = USB
               THEN [s EXCEPT !.currentMode = AM, !.ssbLoaded = FALSE, !.bfoOn = FALSE]
               ELSE s
         IN useBand(saveBand(s1))
    ELSE s

modeSwitch(s) ==
    IF s.currentMode # FM
    THEN LET s1 ==
               IF s.currentMode = AM
               THEN [loadSSB(s) EXCEPT !.currentMode = LSB]
               ELSE IF s.currentMode = LSB
               THEN [s EXCEPT !.currentMode = USB]
               ELSE IF s.currentMode = USB
               THEN [s EXCEPT !.currentMode = AM, !.ssbLoaded = FALSE, !.bfoOn = FALSE]
               ELSE s
         IN useBand(saveBand(s1))
    ELSE s

\* Show the current frequency only if it has changed
displayGate(s) ==
    IF s.currentFrequency # s.previousFrequency
    THEN showFrequency([s EXCEPT !.previousFrequency = s.currentFrequency])
    ELSE s

(***************************************************************************)
(* setup() applied to the initial values of the globals                    *)
(***************************************************************************)
globals ==
    [currentMode |-> FM, bfoOn |-> FALSE, disableAgc |-> TRUE, ssbLoaded |-> FALSE,
     fmStereo |-> TRUE, currentBFO |-> 0, encoderCount |-> 0, currentFrequency |-> 0,
     previousFrequency |-> 0, currentStep |-> 1, currentBFOStep |-> 25, bwIdxSSB |-> 2,
     bwIdxAM |-> 1, band |-> [i \in 0..lastBand |-> bandTable[i + 1]], bandIdx |-> 0,
     volume |-> DEFAULT_VOLUME, oldFreq |-> <<>>, oldMode |-> <<>>, oldUnit |-> <<>>,
     oled |-> oledInit, tuner |-> tunerInit, cmds |-> <<>>]

setup(s) ==
    LET a == useBand(delay(s, 300))
        b == si4735(a, "getFrequency", <<>>)
        c == [b EXCEPT !.currentFrequency = b.tuner.freq, !.previousFrequency = b.tuner.freq]
    IN si4735(c, "setVolume", <<c.volume>>)

(***************************************************************************)
(* Specification                                                           *)
(***************************************************************************)
noneLeft == [i \in 0..lastBand |-> <<>>]

\* the end of setup(), with the event count starting at n
InitAt(n) ==
    /\ Holds(setup(globals))
    /\ event = "setup"
    /\ iter = n
    /\ netBand = 0
    /\ leftAt = noneLeft
    /\ probe = <<>>
    /\ pc = "loop"
    /\ unserved = FALSE

Init == InitAt(0)

\* the events that lead from setup() to LSB on the first band after FM; a
\* behaviour whose event count starts at -Len(toSSB) starts with them
toSSB == <<"bandUp", "mode">>

\* the state a pass of loop() starts from: the logs of the last pass are dropped
beginOf(s) == [s EXCEPT !.cmds = <<>>, !.oled.writes = <<>>]

begin == beginOf(St)

\* readbacks the encoder branch can get in this pass
encReadings == IF encoderCount # 0 /\ ~bfoOn THEN Readings ELSE {"stale"}

\* a pass that ends in state s having taken branch e
Pass(e, s) ==
    /\ iter < MaxIter
    /\ iter < 0 => e = toSSB[Len(toSSB) + iter + 1]
    /\ Commit(displayGate(s))
    /\ event' = e
    /\ iter' = iter + 1
    /\ probe' = probe
    /\ pc' = pc
    /\ unserved' = FALSE

\* the encoder interrupt handler
rotaryEncoder ==
    /\ 0 <= iter
    /\ iter < MaxIter
    /\ \E dir \in {1, -1} : encoderCount' = dir
    /\ unserved' = TRUE
    /\ event' = "rotaryEncoder"
    /\ iter' = iter + 1
    /\ UNCHANGED << currentMode, bfoOn, disableAgc, ssbLoaded, fmStereo, currentBFO,
                    currentFrequency, previousFrequency, currentStep, currentBFOStep,
                    bwIdxSSB, bwIdxAM, band, bandIdx, volume, oldFreq, oldMode, oldUnit,
                    oled, tuner, cmds, netBand, leftAt, probe, pc >>

LoopNoButton ==
    /\ \E r \in encReadings : Pass("none", encoderBranch(begin, r))
    /\ UNCHANGED << netBand, leftAt >>

LoopBandwidth ==
    /\ \E r \in encReadings : Pass("bandwidth", bandwidthButton(encoderBranch(begin, r)))
    /\ UNCHANGED << netBand, leftAt >>

LoopBandUp ==
    \E r \in encReadings :
        LET s == encoderBranch(begin, r)
        IN /\ Pass("bandUp", bandUp(s))
           /\ netBand' = netBand + 1
           /\ leftAt' = [leftAt EXCEPT ![s.bandIdx] = <<s.currentFrequency, s.currentStep>>]

LoopBandDown ==
    \E r \in encReadings :
        LET s == encoderBranch(begin, r)
        IN /\ Pass("bandDown", bandDown(s))
           /\ netBand' = netBand - 1
           /\ leftAt' = [leftAt EXCEPT ![s.bandIdx] = <<s.currentFrequency, s.currentStep>>]

LoopVolUp ==
    /\ \E r \in encReadings : Pass("volUp", volUp(encoderBranch(begin, r)))
    /\ UNCHANGED << netBand, leftAt >>

LoopVolDown ==
    /\ \E r \in encReadings : Pass("volDown", volDown(encoderBranch(begin, r)))
    /\ UNCHANGED << netBand, leftAt >>

LoopBfoSwitch ==
    /\ \E r \in encReadings :
          \E r2 \in (IF currentMode = FM THEN Readings ELSE {"stale"}) :
              Pass("bfo", bfoSwitch(encoderBranch(begin, r), r2))
    /\ UNCHANGED << netBand, leftAt >>

LoopAgcSwitch ==
    /\ \E r \in encReadings : Pass("agc", agcSwitch(encoderBranch(begin, r)))
    /\ UNCHANGED << netBand, leftAt >>

LoopStepSwitch ==
    /\ \E r \in encReadings : Pass("step", stepSwitch(encoderBranch(begin, r)))
    /\ UNCHANGED << netBand, leftAt >>

LoopModeSwitch ==
    /\ \E r \in encReadings : Pass("mode", modeSwitch(encoderBranch(begin, r)))
    /\ UNCHANGED << netBand, leftAt >>

Next ==
    \/ rotaryEncoder
    \/ LoopNoButton
    \/ LoopBandwidth
    \/ LoopBandUp
    \/ LoopBandDown
    \/ LoopVolUp
    \/ LoopVolDown
    \/ LoopBfoSwitch
    \/ LoopAgcSwitch
    \/ LoopStepSwitch
    \/ LoopModeSwitch

Spec == Init /\ [][Next]_vars

(***************************************************************************)
(* The same machine followed from LSB on the first band after FM: every    *)
(* behaviour starts with a band-up pass and a mode pass, and the events    *)
(* are counted from there.                                                 *)
(***************************************************************************)
InitSSB == InitAt(-Len(toSSB))

SpecSSB == InitSSB /\ [][Next]_vars

(***************************************************************************)
(* printValue on its own: applied to the frequency field, whose cache      *)
(* starts empty, with any text of up to MaxLen glyphs, at either of the    *)
(* two columns the sketch uses.                                            *)
(***************************************************************************)
Glyphs == {"0", "5"}

Texts == UNION {[1..n -> Glyphs] : n \in 0..MaxLen}

InitPrint == Init

ApplyPrintValue ==
    \E newValue \in Texts, col \in {0, 38} :
        /\ Commit(printValue(beginOf(St), col, 0, "oldFreq", newValue, 7))
        /\ probe' = [oldValue |-> oldFreq, newValue |-> newValue, col |-> col, line |-> 0, space |-> 7]
        /\ event' = "printValue"
        /\ UNCHANGED << iter, netBand, leftAt, pc, unserved >>

SpecPrint == InitPrint /\ [][ApplyPrintValue]_vars

(***************************************************************************)
(* showFrequency on its own: the initial state draws the frequency, the    *)
(* band, the mode and the BFO flag, and one step applies showFrequency.    *)
(***************************************************************************)
FreqExtra == {7200, 8400, 9999, 10000, 10570, 10800, 30000, 65535}

FreqSamples == (0..FreqSpan) \cup FreqExtra

\* one band of each type
BandSamples == {0, 1, 2, 3}

InitShow ==
    /\ \E f \in FreqSamples, b \in BandSamples, m \in {FM, LSB, USB, AM}, bfo \in BOOLEAN :
          Holds([setup(globals) EXCEPT !.currentFrequency = f, !.bandIdx = b,
                                       !.currentMode = m, !.bfoOn = bfo])
    /\ event = "inputs"
    /\ iter = 0
    /\ netBand = 0
    /\ leftAt = noneLeft
    /\ probe = <<>>
    /\ pc = "loop"
    /\ unserved = FALSE

ApplyShowFrequency ==
    /\ event = "inputs"
    /\ Commit(showFrequency(beginOf(St)))
    /\ event' = "showFrequency"
    /\ UNCHANGED << iter, netBand, leftAt, probe, pc, unserved >>

SpecShow == InitShow /\ [][ApplyShowFrequency]_vars

(***************************************************************************)
(* loop() with the encoder branch taken one statement at a step, so that   *)
(* the interrupt handler can run between the test of encoderCount, the     *)
(* BFO or tuning step and the assignment of 0.  The button branch and the  *)
(* display gate that end the pass are one step; the events counted are     *)
(* the interrupts and the passes.                                          *)
(***************************************************************************)
Buttons == {"none", "bandwidth", "bandUp", "bandDown", "volUp", "volDown", "bfo", "agc", "step", "mode"}

\* the branch of the else-if chain for the button line found LOW
button(e, s, r) ==
    CASE e = "bandwidth" -> bandwidthButton(s)
      [] e = "bandUp" -> bandUp(s)
      [] e = "bandDown" -> bandDown(s)
      [] e = "volUp" -> volUp(s)
      [] e = "volDown" -> volDown(s)
      [] e = "bfo" -> bfoSwitch(s, r)
      [] e = "agc" -> agcSwitch(s)
      [] e = "step" -> stepSwitch(s)
      [] e = "mode" -> modeSwitch(s)
      [] OTHER -> s

\* if (encoderCount != 0)
EncoderTest ==
    /\ pc = "loop"
    /\ Commit(begin)
    /\ pc' = IF encoderCount # 0 THEN "step" ELSE "buttons"
    /\ event' = "test"
    /\ UNCHANGED << iter, netBand, leftAt, probe, unserved >>

\* the BFO or tuning step, for the value encoderCount has now
EncoderStep ==
    /\ pc = "step"
    /\ \E r \in (IF ~bfoOn THEN Readings ELSE {"stale"}) : Commit(encoderStep(St, r))
    /\ pc' = "reset"
    /\ unserved' = FALSE
    /\ event' = "encoder"
    /\ UNCHANGED << iter, netBand, leftAt, probe >>

\* encoderCount = 0
EncoderReset ==
    /\ pc = "reset"
    /\ Commit([St EXCEPT !.encoderCount = 0])
    /\ pc' = "buttons"
    /\ unserved' = FALSE
    /\ event' = "reset"
    /\ UNCHANGED << iter, netBand, leftAt, probe >>

\* the button branch and the display gate
RestOfPass ==
    /\ pc = "buttons"
    /\ iter < MaxIter
    /\ \E e \in Buttons :
          /\ \E r \in (IF e = "bfo" /\ currentMode = FM THEN Readings ELSE {"stale"}) :
                 Commit(displayGate(button(e, St, r)))
          /\ event' = e
          /\ netBand' = CASE e = "bandUp" -> netBand + 1
                          [] e = "bandDown" -> netBand - 1
                          [] OTHER -> netBand
          /\ leftAt' = IF e \in {"bandUp", "bandDown"}
                       THEN [leftAt EXCEPT ![bandIdx] = <<currentFrequency, currentStep>>]
                       ELSE leftAt
    /\ pc' = "loop"
    /\ iter' = iter + 1
    /\ UNCHANGED << probe, unserved >>

NextISR ==
    \/ rotaryEncoder
    \/ EncoderTest
    \/ EncoderStep
    \/ EncoderReset
    \/ RestOfPass

SpecISR == Init /\ [][NextISR]_vars

(***************************************************************************)
(* loadSSB on its own, one statement at a step: it is called by a mode     *)
(* press in AM, on any band that is not FM, with the SSB bandwidth index   *)
(* left by an earlier SSB session.                                         *)
(***************************************************************************)
\* one band of each type other than FM, and the last band
LoadBands == {1, 2, 3, lastBand}

InitLoad ==
    /\ \E b \in LoadBands, w \in 0..5 :
          Holds(beginOf(useBand([setup(globals) EXCEPT !.bandIdx = b, !.bwIdxSSB = w])))
    /\ event = "inputs"
    /\ iter = 0
    /\ netBand = 0
    /\ leftAt = noneLeft
    /\ probe = <<>>
    /\ pc = 1
    /\ unserved = FALSE

LoadStatement ==
    /\ pc \in loadSSBStmts
    /\ Commit(loadSSBStmt(St, pc))
    /\ pc' = pc + 1
    /\ event' = "loadSSB"
    /\ UNCHANGED << iter, netBand, leftAt, probe, unserved >>

SpecLoad == InitLoad /\ [][LoadStatement]_vars

(***************************************************************************)
(* Properties                                                              *)
(***************************************************************************)
nBands == lastBand + 1

\* a pass of loop() that took branch e
Took(e) == iter' # iter /\ event' = e

\* the encoder interrupt
Interrupted == iter' # iter /\ event' = "rotaryEncoder"

isCommand(c) == c.op # "delay"

\* the tuner commands of a log, delays left out
commandsOf(log) == SelectSeq(log, isCommand)

patchOps == <<"reset", "queryLibraryId", "patchPowerUp", "downloadPatch", "setSSBConfig">>

\* commands of the log that belong to a patch load
patchCommands(log) == {i \in DOMAIN log : \E k \in DOMAIN patchOps : log[i].op = patchOps[k]}

\* complete patch-load sequences in the log
completeLoads(log) ==
    LET c == commandsOf(log)
    IN Cardinality({i \in 1..(Len(c) - Len(patchOps) + 1) :
                       \A k \in DOMAIN patchOps : c[i + k - 1].op = patchOps[k]})

sent(log, op, args) == \E i \in DOMAIN log : log[i].op = op /\ log[i].args = args

\* C1: bandIdx is the number of band-up presses minus the number of band-down
\* presses, counted round the band table; so N presses one way followed by N the
\* other way restore it, band-up from the last band gives band 0 and band-down
\* from band 0 gives the last band.
C1_BandIdxCircular == bandIdx = netBand % nBands

\* band 0 was left downwards to the last band and band-up brought band 0 back
C1_Witness ==
    /\ event = "bandUp"
    /\ netBand = 0
    /\ bandIdx = 0
    /\ leftAt[lastBand] # <<>>

\* C2: a mode press in AM runs exactly one complete patch load and ends in LSB,
\* in LSB it ends in USB with no patch load, in USB it ends in AM with ssbLoaded
\* false; nothing else ever issues a patch-load command.
C2_ModeCyclePatchLoad ==
    [][ /\ (Took("mode") /\ currentMode = AM) =>
              /\ completeLoads(cmds') = 1
              /\ Cardinality(patchCommands(cmds')) = Len(patchOps)
              /\ currentMode' = LSB
              /\ ssbLoaded'
        /\ (Took("mode") /\ currentMode = LSB) =>
              /\ patchCommands(cmds') = {}
              /\ currentMode' = USB
        /\ (Took("mode") /\ currentMode = USB) =>
              /\ patchCommands(cmds') = {}
              /\ currentMode' = AM
              /\ ~ssbLoaded'
        /\ (iter' # iter /\ ~Interrupted /\ ~(Took("mode") /\ currentMode = AM)) =>
              patchCommands(cmds') = {}
        /\ Interrupted => (cmds' = cmds /\ tuner' = tuner)
      ]_vars

\* the second AM -> LSB press of a mode cycle has loaded the patch a second time
C2_Witness ==
    /\ event = "mode"
    /\ currentMode = LSB
    /\ tuner.downloads = 2
    /\ completeLoads(cmds) = 1

\* C3: after every pass of loop(), LSB or USB implies ssbLoaded.
C3_SsbModeImpliesLoaded == currentMode \in {LSB, USB} => ssbLoaded

\* a band change made in USB
C3_Witness ==
    /\ event \in {"bandUp", "bandDown"}
    /\ currentMode = USB
    /\ ssbLoaded

\* C4: every band entry's stored frequency lies within the band's bounds.
C4_BandFreqInRange ==
    \A i \in 0..lastBand :
        /\ band[i].minimumFreq <= band[i].currentFreq
        /\ band[i].currentFreq <= band[i].maximumFreq

\* a band was left at a frequency read back from the tuner, at an edge of the band
C4_Witness ==
    \E i \in 0..lastBand :
        /\ i # bandIdx
        /\ band[i].currentFreq # bandTable[i + 1].currentFreq
        /\ band[i].currentFreq \in {band[i].minimumFreq, band[i].maximumFreq}

\* C5: when a band that was left by band up/down at frequency f and step s
\* becomes the active band again, currentFrequency = f, currentStep = s and the
\* tuner is configured with f and s.
C5_BandMemory ==
    [][ (bandIdx' # bandIdx /\ leftAt[bandIdx'] # <<>>) =>
            LET f == leftAt[bandIdx'][1]
                st == leftAt[bandIdx'][2]
            IN /\ currentFrequency' = f
               /\ currentStep' = st
               /\ tuner'.freq = f
               /\ tuner'.step = st
               /\ \E i \in DOMAIN cmds' :
                     /\ cmds'[i].op \in {"setFM", "setAM", "setSSB"}
                     /\ cmds'[i].args[3] = f
                     /\ cmds'[i].args[4] = st
      ]_vars

\* back on a band that was left with a frequency or step other than its default
C5_Witness ==
    /\ event \in {"bandUp", "bandDown"}
    /\ leftAt[bandIdx] # <<>>
    /\ leftAt[bandIdx] # <<bandTable[bandIdx + 1].currentFreq, bandTable[bandIdx + 1].currentStep>>
    /\ currentFrequency = leftAt[bandIdx][1]
    /\ currentStep = leftAt[bandIdx][2]

\* C6: in AM, or in LSB/USB with BFO off, a step press maps the step 1 -> 5,
\* 5 -> 10, 10 -> 1, sends it to the tuner and stores it in the active band
\* entry; the stored step of every other band is unchanged.
C6_StepCycle ==
    [][ (/\ Took("step")
         /\ currentMode = AM \/ (currentMode \in {LSB, USB} /\ ~bfoOn)) =>
            /\ currentStep \in {1, 5, 10}
            /\ currentStep' = CASE currentStep = 1 -> 5
                                [] currentStep = 5 -> 10
                                [] currentStep = 10 -> 1
            /\ sent(cmds', "setFrequencyStep", <<currentStep'>>)
            /\ tuner'.step = currentStep'
            /\ band'[bandIdx].currentStep = currentStep'
            /\ bandIdx' = bandIdx
            /\ \A i \in 0..lastBand : i # bandIdx => band'[i] = band[i]
      ]_vars

\* a second step press in LSB with BFO off, on a band that started at step 1
C6_Witness ==
    /\ event = "step"
    /\ currentMode = LSB
    /\ ~bfoOn
    /\ currentStep = 10
    /\ band[bandIdx].currentStep = 10
    /\ bandTable[bandIdx + 1].currentStep = 1

\* C7: in LSB or USB a bandwidth press sets bwIdxSSB to (bwIdxSSB + 1) mod 6,
\* sends the new index to the tuner and then sets the sideband cutoff filter to 0
\* exactly when the new index is 0, 4 or 5 and to 1 otherwise; bwIdxAM is unchanged.
C7_SsbBandwidthCycle ==
    [][ (Took("bandwidth") /\ currentMode \in {LSB, USB}) =>
            /\ bwIdxSSB' = (bwIdxSSB + 1) % 6
            /\ bwIdxAM' = bwIdxAM
            /\ \E i, j \in DOMAIN cmds' :
                  /\ i < j
                  /\ cmds'[i] = [op |-> "setSSBAudioBandwidth", args |-> <<bwIdxSSB'>>]
                  /\ cmds'[j] = [op |-> "setSBBSidebandCutoffFilter",
                                 args |-> <<IF bwIdxSSB' \in {0, 4, 5} THEN 0 ELSE 1>>]
            /\ Cardinality({k \in DOMAIN cmds' : cmds'[k].op = "setSBBSidebandCutoffFilter"}) = 1
      ]_vars

\* the press that wraps the index from 5 to 0 and selects the narrow filter
C7_Witness ==
    /\ event = "bandwidth"
    /\ currentMode \in {LSB, USB}
    /\ bwIdxSSB = 0
    /\ sent(cmds, "setSBBSidebandCutoffFilter", <<0>>)

\* the glyph writes of the last call
wrote(col, line, ch, color) ==
    \E k \in DOMAIN oled.writes :
        oled.writes[k] = [col |-> col, line |-> line, ch |-> ch, color |-> color]

\* C8: for texts of equal length, printValue writes glyphs only at the positions
\* where they differ (old glyph erased, new glyph drawn, at col + i*space), and
\* none at all when the texts are equal.
C8_WritesOnlyAtChanges ==
    (event = "printValue" /\ Len(probe.oldValue) = Len(probe.newValue)) =>
        \A k \in DOMAIN oled.writes :
            \E i \in 1..Len(probe.newValue) :
                /\ probe.oldValue[i] # probe.newValue[i]
                /\ oled.writes[k].col = probe.col + (i - 1) * probe.space
                /\ oled.writes[k].line = probe.line
                /\ \/ oled.writes[k].ch = probe.oldValue[i] /\ oled.writes[k].color = SSD1306_BLACK
                   \/ oled.writes[k].ch = probe.newValue[i] /\ oled.writes[k].color = SSD1306_WHITE

\* C9: for texts of different lengths, printValue erases every glyph of the old
\* text beyond the new one, or draws every glyph of the new text beyond the old
\* one, each at col + i*space; after every call the cache is the new text, and a
\* call with the text already cached erases nothing.
C9_TrailingGlyphsAndCache ==
    event = "printValue" =>
        /\ oldFreq = probe.newValue
        /\ \A i \in (Len(probe.newValue) + 1)..Len(probe.oldValue) :
              wrote(probe.col + (i - 1) * probe.space, probe.line, probe.oldValue[i], SSD1306_BLACK)
        /\ \A i \in (Len(probe.oldValue) + 1)..Len(probe.newValue) :
              wrote(probe.col + (i - 1) * probe.space, probe.line, probe.newValue[i], SSD1306_WHITE)
        /\ probe.oldValue = probe.newValue =>
              \A k \in DOMAIN oled.writes : oled.writes[k].color # SSD1306_BLACK

\* a shorter text replaced a longer one
C9_Witness ==
    /\ event = "printValue"
    /\ Len(probe.newValue) >= 1
    /\ Len(probe.oldValue) > Len(probe.newValue)
    /\ oldFreq = probe.newValue

\* the k-th of the five characters of n written in decimal, right-justified
fixedChar(n, k) ==
    LET p == 10 ^ (5 - k)
    IN IF n < p /\ k < 5 THEN " " ELSE digitChars[((n \div p) % 10) + 1]

\* C10: showFrequency gives, on an FM band, the five-character decimal of
\* currentFrequency with a point after the third character and the unit MHz; on
\* any other band the five characters and the unit KHz; the mode label is the LW
\* indicator when currentFrequency < 520, whatever currentMode is, and the label
\* of currentMode otherwise.
C10_FrequencyFormat ==
    event = "showFrequency" =>
        LET f == currentFrequency
            shown == IF bfoOn THEN SubSeq(oldFreq, 2, Len(oldFreq) - 1) ELSE oldFreq
        IN /\ band[bandIdx].bandType = FM_BAND_TYPE =>
                 /\ shown = <<fixedChar(f, 1), fixedChar(f, 2), fixedChar(f, 3), ".",
                              fixedChar(f, 4), fixedChar(f, 5)>>
                 /\ oldUnit = <<"M", "H", "z">>
           /\ band[bandIdx].bandType # FM_BAND_TYPE =>
                 /\ shown = [k \in 1..5 |-> fixedChar(f, k)]
                 /\ oldUnit = <<"K", "H", "z">>
           /\ oldMode = IF f < 520 THEN <<"L", "W", " ", " ">>
                        ELSE bandModeDesc[currentMode + 1]

\* 10570 on the FM band is shown as 105.70 MHz
C10_Witness ==
    /\ event = "showFrequency"
    /\ band[bandIdx].bandType = FM_BAND_TYPE
    /\ currentFrequency = 10570
    /\ oldFreq = <<"1", "0", "5", ".", "7", "0">>
    /\ oldUnit = <<"M", "H", "z">>
    /\ oldMode = <<"F", "M", " ">>

IsPrefix(a, b) == Len(a) <= Len(b) /\ a = SubSeq(b, 1, Len(a))

opsOf(log) == [i \in DOMAIN log |-> log[i].op]

\* the order of a patch load as claimed, with a settle delay on either side of
\* the patch download
claimedLoadOps ==
    <<"reset", "queryLibraryId", "patchPowerUp", "delay", "downloadPatch", "delay",
      "setSSBConfig", "delay">>

\* the order of a patch load with no delay between the patch download and the
\* SSB configuration
directLoad(w) ==
    << [op |-> "reset", args |-> <<>>],
       [op |-> "queryLibraryId", args |-> <<>>],
       [op |-> "patchPowerUp", args |-> <<>>],
       [op |-> "delay", args |-> <<50>>],
       [op |-> "downloadPatch", args |-> <<>>],
       [op |-> "setSSBConfig", args |-> <<w, 1, 0, 0, 0, 1>>],
       [op |-> "delay", args |-> <<25>>] >>

\* C11 as claimed: a patch load issues reset, query library id, patch power-up,
\* a settle delay, patch download, a settle delay, SSB configuration with
\* bwIdxSSB, a settle delay, and sets ssbLoaded only after all of them.
C11_SettleDelayAfterDownload ==
    /\ IsPrefix(opsOf(cmds), claimedLoadOps)
    /\ \A i \in DOMAIN cmds : cmds[i].op = "setSSBConfig" => cmds[i].args[1] = bwIdxSSB
    /\ ssbLoaded => opsOf(cmds) = claimedLoadOps

\* C11: a patch load issues reset, query library id, patch power-up, a 50 ms
\* delay, patch download, SSB configuration with bwIdxSSB (directly after the
\* download) and a 25 ms delay, in this order, and sets ssbLoaded only after all
\* of them.
C11_LoadOrder ==
    /\ IsPrefix(cmds, directLoad(bwIdxSSB))
    /\ ssbLoaded => cmds = directLoad(bwIdxSSB)

\* a patch load has run to its end with an SSB bandwidth index other than the default
C11_Witness ==
    /\ event = "loadSSB"
    /\ ssbLoaded
    /\ bwIdxSSB = 4
    /\ sent(cmds, "setSSBConfig", <<4, 1, 0, 0, 0, 1>>)
    /\ cmds[Len(cmds)] = [op |-> "delay", args |-> <<25>>]

\* C12: the foreground's assignment of 0 to encoderCount never clears a value
\* that the interrupt handler wrote and that no tuning or BFO step has acted on.
C12_NoLostEncoderEvent ==
    [][ (pc = "reset" /\ pc' # "reset") => ~unserved ]_vars

\* a pass of loop() in which useBand ran
UsedBand ==
    \/ Took("bandUp")
    \/ Took("bandDown")
    \/ Took("mode") /\ currentMode # FM

activeBand == band[bandIdx]

\* C13: whenever useBand runs with an FM band active, whatever the state before,
\* it ends with currentMode = FM, bfoOn and ssbLoaded false, antenna capacitor 0
\* and set-FM with the band's minimum, maximum, stored frequency and stored step
\* sent to the tuner, and currentFrequency and currentStep equal to the stored values.
C13_UseBandFM ==
    [][ (UsedBand /\ activeBand'.bandType = FM_BAND_TYPE) =>
            /\ currentMode' = FM
            /\ ~bfoOn'
            /\ ~ssbLoaded'
            /\ \E i, j \in DOMAIN cmds' :
                  /\ i < j
                  /\ cmds'[i] = [op |-> "setTuneFrequencyAntennaCapacitor", args |-> <<0>>]
                  /\ cmds'[j] = [op |-> "setFM",
                                 args |-> <<activeBand'.minimumFreq, activeBand'.maximumFreq,
                                            activeBand'.currentFreq, activeBand'.currentStep>>]
            /\ ~sent(cmds', "setTuneFrequencyAntennaCapacitor", <<1>>)
            /\ currentFrequency' = activeBand'.currentFreq
            /\ currentStep' = activeBand'.currentStep
      ]_vars

\* the FM band was entered from LSB or USB with the patch loaded and the BFO
\* on and moved away from 0
C13_Witness ==
    /\ event \in {"bandUp", "bandDown"}
    /\ activeBand.bandType = FM_BAND_TYPE
    /\ currentMode = FM
    /\ tuner.downloads = 1
    /\ currentBFO # 0
    /\ ~bfoOn
    /\ ~ssbLoaded

\* what C14 says of a pass in which useBand ran with a band that is not FM
\* and ssbLoaded false, but for the AGC
UseBandAMRest ==
    /\ currentMode' = AM
    /\ ~bfoOn'
    /\ sent(cmds', "setAM", <<activeBand'.minimumFreq, activeBand'.maximumFreq,
                              activeBand'.currentFreq, activeBand'.currentStep>>)
    /\ tuner'.minFreq = activeBand'.minimumFreq
    /\ tuner'.maxFreq = activeBand'.maximumFreq
    /\ tuner'.freq = activeBand'.currentFreq
    /\ tuner'.step = activeBand'.currentStep
    /\ sent(cmds', "setAmSoftMuteMaxAttenuation", <<0>>)
    /\ \A i \in DOMAIN cmds' :
          cmds'[i].op = "setTuneFrequencyAntennaCapacitor" =>
              cmds'[i].args = <<IF activeBand'.bandType = SW_BAND_TYPE THEN 1 ELSE 0>>
    /\ \E i \in DOMAIN cmds' : cmds'[i].op = "setTuneFrequencyAntennaCapacitor"

\* set-AGC(disable, index): the AGC is enabled when disable is 0
agcEnabled(t) == t.agc # <<>> /\ t.agc[1] = 0

\* C14 as claimed: useBand with a band that is not FM and ssbLoaded false ends in
\* AM with the BFO off, set-AM with the band's bounds, stored frequency and step,
\* the tuner's AGC enabled by the set-AGC command it issues, AM soft-mute 0, and
\* antenna capacitor 0 on MW and LW, 1 on SW.
C14_UseBandAMEnablesAgc ==
    [][ (UsedBand /\ activeBand'.bandType # FM_BAND_TYPE /\ ~ssbLoaded') =>
            /\ UseBandAMRest
            /\ \E i \in DOMAIN cmds' : cmds'[i].op = "setAutomaticGainControl"
            /\ agcEnabled(tuner')
      ]_vars

\* C14: the same, with the set-AGC command being set-AGC(1, 0): disable = 1,
\* index 0, which leaves the tuner's AGC disabled.
C14_UseBandAM ==
    [][ (UsedBand /\ activeBand'.bandType # FM_BAND_TYPE /\ ~ssbLoaded') =>
            /\ UseBandAMRest
            /\ sent(cmds', "setAutomaticGainControl", <<1, 0>>)
            /\ tuner'.agc = <<1, 0>>
            /\ ~agcEnabled(tuner')
      ]_vars

\* a mode press in USB brought a short-wave band back to AM
C14_Witness ==
    /\ event = "mode"
    /\ currentMode = AM
    /\ ~ssbLoaded
    /\ tuner.downloads = 1
    /\ activeBand.bandType = SW_BAND_TYPE
    /\ sent(cmds, "setTuneFrequencyAntennaCapacitor", <<1>>)
    /\ tuner.agc = <<1, 0>>

\* C15: the mode branch, taken in AM, LSB or USB, leaves bandIdx,
\* currentFrequency and currentStep unchanged, stores the working frequency and
\* step in the active band entry and re-tunes the tuner to them (set-SSB, or
\* set-AM from USB); taken in FM it changes no state and sends no tuner command:
\* the pass ends as one with no button does.
C15_ModePressKeepsTuning ==
    [][ Took("mode") =>
            /\ currentMode # FM =>
                  /\ bandIdx' = bandIdx
                  /\ currentFrequency' = currentFrequency
                  /\ currentStep' = currentStep
                  /\ band'[bandIdx].currentFreq = currentFrequency
                  /\ band'[bandIdx].currentStep = currentStep
                  /\ \E i \in (Len(cmds) + 1)..Len(cmds') :
                        /\ cmds'[i].op = IF currentMode = USB THEN "setAM" ELSE "setSSB"
                        /\ cmds'[i].args[3] = currentFrequency
                        /\ cmds'[i].args[4] = currentStep
                  /\ tuner'.freq = currentFrequency
                  /\ tuner'.step = currentStep
            /\ currentMode = FM =>
                  /\ St' = displayGate(St)
                  /\ cmds' = cmds
                  /\ tuner' = tuner
      ]_vars

\* a mode press in AM after the band was tuned away from its stored frequency
C15_Witness ==
    /\ event = "mode"
    /\ currentMode = LSB
    /\ currentFrequency # bandTable[bandIdx + 1].currentFreq
    /\ band[bandIdx].currentFreq = currentFrequency
    /\ tuner.freq = currentFrequency

\* the BFO or tuning step of the encoder branch
HandledEncoder == pc = "step" /\ pc' = "reset"

\* C16: an encoder event handled with bfoOn true moves currentBFO by
\* +currentBFOStep (clockwise) or -currentBFOStep, sends the new offset (set-BFO),
\* leaves currentFrequency unchanged and sends no frequency up/down; handled with
\* bfoOn false it sends exactly one frequency-up (clockwise) or frequency-down,
\* sets currentFrequency to the readback and leaves currentBFO unchanged.
C16_EncoderStep ==
    [][ HandledEncoder =>
            /\ bfoOn =>
                  /\ currentBFO' = currentBFO + encoderCount * currentBFOStep
                  /\ cmds' = Append(cmds, [op |-> "setSSBBfo", args |-> <<currentBFO'>>])
                  /\ currentFrequency' = currentFrequency
            /\ ~bfoOn =>
                  /\ cmds' = cmds \o
                         << [op |-> IF encoderCount = 1 THEN "frequencyUp" ELSE "frequencyDown",
                             args |-> <<>>],
                            [op |-> "getFrequency", args |-> <<>>] >>
                  /\ currentFrequency' = tuner'.freq
                  /\ currentBFO' = currentBFO
      ]_vars

\* a counter-clockwise event handled with the BFO on
C16_Witness ==
    /\ event = "encoder"
    /\ bfoOn
    /\ currentBFO = -currentBFOStep
    /\ cmds = <<[op |-> "setSSBBfo", args |-> <<currentBFO>>]>>

\* C17: after setup and after every pass of loop(), bfoOn implies LSB or USB.
C17_BfoOnlyInSSB == bfoOn => currentMode \in {LSB, USB}

\* the BFO was on and moved in SSB, and a mode press in USB has gone to AM
C17_Witness ==
    /\ event = "mode"
    /\ currentMode = AM
    /\ currentBFO # 0
    /\ ~bfoOn

bracketed(str) == Len(str) >= 2 /\ str[1] = ">" /\ str[Len(str)] = "<"

\* the mode label showFrequency computes
modeLabel(mode, freq) ==
    IF freq < 520 THEN <<"L", "W", " ", " ">> ELSE bandModeDesc[mode + 1]

\* C18: at the end of every pass of loop() the frequency field cache is
\* bracketed with > and < exactly while bfoOn is true, and the mode label cache
\* is the label of currentMode and currentFrequency.
C18_DisplayReflectsState ==
    (event \notin {"setup", "rotaryEncoder"}) =>
        /\ bracketed(oldFreq) <=> bfoOn
        /\ oldMode = modeLabel(currentMode, currentFrequency)

\* C19: after setup and after every pass of loop(), currentMode = FM exactly
\* when the active band has type FM.
C19_FmModeIffFmBand == (currentMode = FM) <=> (activeBand.bandType = FM_BAND_TYPE)

\* the FM band was entered again after a patch load
C19_Witness ==
    /\ event \in {"bandUp", "bandDown"}
    /\ activeBand.bandType = FM_BAND_TYPE
    /\ currentMode = FM
    /\ tuner.downloads = 1
    /\ leftAt[bandIdx] # <<>>

ssbOnlyOps ==
    {"setSSB", "setSSBAutomaticVolumeControl", "setSsbSoftMuteMaxAttenuation",
     "setSSBAudioBandwidth", "setSBBSidebandCutoffFilter", "setSSBBfo"}

\* whether the tuner holds the patch after the first n commands of the log, if
\* it did (p) before them: from a patch download to the next reset, set-AM or set-FM
RECURSIVE patchHeld(_, _, _)
patchHeld(p, log, n) ==
    IF n = 0 THEN p
    ELSE CASE log[n].op = "downloadPatch" -> TRUE
           [] log[n].op \in {"reset", "setAM", "setFM"} -> FALSE
           [] OTHER -> patchHeld(p, log, n - 1)

\* C20: every SSB-only command (set-SSB, set-SSB-AVC, set-SSB-soft-mute,
\* set-SSB-audio-bandwidth, set-sideband-cutoff-filter, set-BFO) is sent while the
\* tuner holds the patch.
C20_SsbCommandsNeedPatch ==
    [][ (iter' # iter /\ ~Interrupted) =>
            /\ \A i \in DOMAIN cmds' :
                  cmds'[i].op \in ssbOnlyOps => patchHeld(tuner.patch, cmds', i - 1)
            /\ tuner'.patch = patchHeld(tuner.patch, cmds', Len(cmds'))
      ]_vars

\* a band change in SSB, with the BFO offset sent in the same pass
C20_Witness ==
    /\ event \in {"bandUp", "bandDown"}
    /\ tuner.patch
    /\ \E i, j \in DOMAIN cmds : i < j /\ cmds[i].op = "setSSBBfo" /\ cmds[j].op = "setSSB"

\* C21: once a set-AGC command has been sent, disableAgc is the first (disable)
\* argument of the last set-AGC command the tuner received.
C21_AgcFlagMatchesTuner ==
    tuner.agc # <<>> => (disableAgc <=> tuner.agc[1] = 1)

====
